---- MODULE Spec2Model ----
(***************************************************************************)
(* Model of the ingestion / indexing / retrieval core of mini-coding-agent *)
(* (src/ingest.py, src/embed.py, src/retrieve.py, src/tools.py,            *)
(* src/config.py).                                                         *)
(*                                                                         *)
(* The history variables before, saved and built are not program state:    *)
(* they record what the properties compare the store with.  before is set  *)
(* by a call of embed_chunks or load that raises and by a load into a      *)
(* fresh store, and is None otherwise.                                     *)
(*                                                                         *)
(* Text is a sequence of one-character strings; "\n" is the line break.    *)
(* A CodeChunk is a record with the dataclass's five fields.  None is the  *)
(* record [tag |-> "None"]; every other optional value is a tagged record, *)
(* so that values of different Python types compare unequal.               *)
(***************************************************************************)
EXTENDS Integers, Sequences, FiniteSets, TLC

VARIABLES
    path,        \* ingest: relative path of the file being chunked
    content,     \* ingest: text of the file being chunked
    chunks,      \* VectorStore.chunks
    embeddings,  \* VectorStore.embeddings (None or an ndarray of rows)
    index,       \* VectorStore.index (None or a faiss IndexFlatIP)
    faiss,       \* whether "import faiss" succeeds in this process
    disk,        \* the directory store_dir / name and its three files
    op,          \* the operation that ran last
    arg,         \* its arguments
    ret,         \* what it returned (or the exception it raised)
    before,      \* history: the store's fields when a failing call or a load began
    saved,       \* history: the store's fields at the last save to the disk
    built,       \* history: the store's last change was a successful embed_chunks
    faults,      \* history: how many calls failed or files were damaged so far
    writer,      \* a second process: the fields of its store
    pcSave,      \* the second process: where it is in index_repository
    pcLoad,      \* this process: where it is in load
    versions,    \* history: the stores the second process began to save, in order
    oldAtLoad    \* history: the last completed save when load began (or None)

concVars == <<writer, pcSave, pcLoad, versions, oldAtLoad>>

vars ==
    <<path, content, chunks, embeddings, index, faiss, disk, op, arg, ret,
      before, saved, built, faults, concVars>>

-----------------------------------------------------------------------------
(* Bounds of the model *)

\* longest file, in lines, handed to the chunkers
MaxLines == 3

(* Program constants *)

CHUNK_SIZE == 1500
CHUNK_OVERLAP == 200

-----------------------------------------------------------------------------
(* Python values *)

None == [tag |-> "None"]

Str(s) == [tag |-> "str", val |-> s]

ChunkList(cs) == [tag |-> "list", val |-> cs]

Raised(e) == [tag |-> "raise", exc |-> e]

Bool(b) == [tag |-> "bool", val |-> b]

NL == "\n"

Min(S) == CHOOSE m \in S : \A n \in S : m <= n

Max(S) == CHOOSE m \in S : \A n \in S : m >= n

\* c * n
Rep(c, n) == [i \in 1..n |-> c]

\* s[a:] with a 0-based, as a Python slice
SliceFrom(s, a) == SubSeq(s, a + 1, Len(s))

\* s[:n]
Prefix(s, n) == SubSeq(s, 1, IF n < Len(s) THEN n ELSE Len(s))

RECURSIVE Split(_)
\* str.split("\n")
Split(s) ==
    LET nl == {i \in 1..Len(s) : s[i] = NL}
    IN  IF nl = {} THEN <<s>>
        ELSE LET p == Min(nl)
             IN  <<SubSeq(s, 1, p - 1)>> \o Split(SubSeq(s, p + 1, Len(s)))

RECURSIVE Join(_)
\* "\n".join(parts)
Join(parts) ==
    IF parts = <<>> THEN <<>>
    ELSE IF Len(parts) = 1 THEN parts[1]
    ELSE parts[1] \o <<NL>> \o Join(Tail(parts))

\* ord(c) for the characters the model's texts use
Code(c) ==
    CASE c = "a" -> 97 [] c = "b" -> 98 [] c = "c" -> 99 [] c = "d" -> 100
      [] c = "x" -> 120 [] c = "y" -> 121 [] OTHER -> 63

IsSpace(c) == c \in {" ", "\t"}

WordChars ==
    {"a", "c", "d", "e", "f", "g", "l", "n", "s", "v", "w", "x", "y", "z",
     "C", "_"}

\* len(line) - len(line.lstrip()); also len(match.group(1)) of ^(\s*)
Indent(line) ==
    LET ns == {i \in 1..Len(line) : ~IsSpace(line[i])}
    IN  IF ns = {} THEN Len(line) ELSE Min(ns) - 1

\* line.strip() == ""
IsBlank(line) == \A i \in 1..Len(line) : IsSpace(line[i])

\* first position at or after p that holds no white space
SkipWs(line, p) ==
    LET ns == {i \in p..Len(line) : ~IsSpace(line[i])}
    IN  IF ns = {} THEN Len(line) + 1 ELSE Min(ns)

StartsWithAt(line, p, word) ==
    /\ p + Len(word) - 1 <= Len(line)
    /\ SubSeq(line, p, p + Len(word) - 1) = word

\* <keyword>\s+\w+ at position p
KeywordAt(line, p, word) ==
    /\ StartsWithAt(line, p, word)
    /\ p + Len(word) <= Len(line)
    /\ IsSpace(line[p + Len(word)])
    /\ LET q == SkipWs(line, p + Len(word))
       IN  q <= Len(line) /\ line[q] \in WordChars

\* func_pattern.match(line): ^(\s*)(async\s+)?def\s+\w+
func_pattern(line) ==
    LET p == Indent(line) + 1
    IN  \/ KeywordAt(line, p, <<"d", "e", "f">>)
        \/ /\ StartsWithAt(line, p, <<"a", "s", "y", "n", "c">>)
           /\ p + 5 <= Len(line)
           /\ IsSpace(line[p + 5])
           /\ KeywordAt(line, SkipWs(line, p + 5), <<"d", "e", "f">>)

\* class_pattern.match(line): ^(\s*)class\s+\w+
class_pattern(line) ==
    KeywordAt(line, Indent(line) + 1, <<"c", "l", "a", "s", "s">>)

-----------------------------------------------------------------------------
(* ingest.py *)

CodeChunk(fp, text, first, last, type) ==
    [file_path |-> fp, content |-> text, start_line |-> first,
     end_line |-> last, chunk_type |-> type]

\* mutant of DefStartLine: the definition line is left to the previous chunk's range
DefStartLineSameAsIndex(i) == i

\* the 1-based line number of lines[i] (0-based i), where a definition's chunk starts
DefStartLine(i) == i + 1

RECURSIVE PyBody(_, _, _, _)
\* the inner while loop: collect the body of a function or class
PyBody(lines, i, cur, base_indent) ==
    IF i >= Len(lines) THEN [i |-> i, cur |-> cur]
    ELSE LET next_line == lines[i + 1]
             current_indent == Indent(next_line)
         IN  IF IsBlank(next_line)
             THEN PyBody(lines, i + 1, Append(cur, next_line), base_indent)
             ELSE IF /\ current_indent <= base_indent
                     /\ \/ func_pattern(next_line) \/ class_pattern(next_line)
                        \/ current_indent < base_indent
                  THEN [i |-> i, cur |-> cur]
                  ELSE PyBody(lines, i + 1, Append(cur, next_line), base_indent)

RECURSIVE PyMain(_, _, _, _, _, _, _)
\* the outer while loop and the final "save remaining chunk"
PyMain(lines, fp, i, out, cur, current_start, current_type) ==
    IF i >= Len(lines)
    THEN IF cur # <<>>
         THEN Append(out, CodeChunk(fp, Join(cur), current_start, Len(lines),
                                    current_type))
         ELSE out
    ELSE LET line == lines[i + 1]
         IN  IF func_pattern(line) \/ class_pattern(line)
             THEN LET flushed ==
                          IF cur # <<>>
                          THEN Append(out, CodeChunk(fp, Join(cur), current_start,
                                                     i, current_type))
                          ELSE out
                      type == IF func_pattern(line) THEN "function" ELSE "class"
                      body == PyBody(lines, i + 1, <<line>>, Indent(line))
                  IN  PyMain(lines, fp, body.i, flushed, body.cur,
                             DefStartLine(i), type)
             ELSE PyMain(lines, fp, i + 1, out, Append(cur, line),
                         current_start, current_type)

extract_python_chunks(text, fp) ==
    PyMain(Split(text), fp, 0, <<>>, <<>>, 1, "block")

RECURSIVE OverlapLoop(_, _, _, _)
\* "for ln in reversed(current_chunk)": the lines kept as overlap
OverlapLoop(cur, k, overlap_lines, overlap_chars) ==
    IF k = 0 THEN overlap_lines
    ELSE IF overlap_chars + Len(cur[k]) > CHUNK_OVERLAP THEN overlap_lines
    ELSE OverlapLoop(cur, k - 1, <<cur[k]>> \o overlap_lines,
                     overlap_chars + Len(cur[k]) + 1)

RECURSIVE CharCount(_)
\* the sum of len(ln) + 1 over the lines
CharCount(ls) ==
    IF ls = <<>> THEN 0 ELSE Len(Head(ls)) + 1 + CharCount(Tail(ls))

\* mutant of OverlapStart: the next chunk is numbered one line too early
OverlapStartOneEarly(i, n) == i - n

\* current_start after a chunk that ended at line i kept n overlap lines
OverlapStart(i, n) == i - n + 1

\* mutant of SizeReached: the overlap is taken off the target size
SizeReachedEarly(current_chars) == current_chars >= CHUNK_SIZE - CHUNK_OVERLAP

\* "if current_chars >= CHUNK_SIZE"
SizeReached(current_chars) == current_chars >= CHUNK_SIZE

RECURSIVE SizeLoop(_, _, _, _, _, _, _)
\* "for i, line in enumerate(lines, 1)" and the final "remaining content"
SizeLoop(lines, fp, i, out, cur, current_chars, current_start) ==
    IF i > Len(lines)
    THEN IF cur # <<>>
         THEN Append(out, CodeChunk(fp, Join(cur), current_start, Len(lines),
                                    "block"))
         ELSE out
    ELSE LET cur2 == Append(cur, lines[i])
             chars2 == current_chars + Len(lines[i]) + 1
         IN  IF SizeReached(chars2)
             THEN LET overlap_lines == OverlapLoop(cur2, Len(cur2), <<>>, 0)
                  IN  SizeLoop(lines, fp, i + 1,
                               Append(out, CodeChunk(fp, Join(cur2),
                                                     current_start, i, "block")),
                               overlap_lines, CharCount(overlap_lines),
                               OverlapStart(i, Len(overlap_lines)))
             ELSE SizeLoop(lines, fp, i + 1, out, cur2, chars2, current_start)

chunk_by_size(text, fp) == SizeLoop(Split(text), fp, 1, <<>>, <<>>, 0, 1)

Lower(c) == IF c = "P" THEN "p" ELSE IF c = "Y" THEN "y" ELSE c

\* Path(file_path).suffix.lower()
Suffix(fp) ==
    LET dots == {i \in 2..Len(fp) : fp[i] = "."}
    IN  IF dots = {} THEN <<>>
        ELSE LET s == SubSeq(fp, Max(dots), Len(fp))
             IN  [i \in 1..Len(s) |-> Lower(s[i])]

\* mutant of chunk_code: the fallback for one oversized chunk is left out
chunk_code_without_fallback(text, fp) ==
    IF Suffix(fp) = <<".", "p", "y">>
    THEN extract_python_chunks(text, fp)
    ELSE chunk_by_size(text, fp)

chunk_code(text, fp) ==
    IF Suffix(fp) = <<".", "p", "y">>
    THEN LET cs == extract_python_chunks(text, fp)
         IN  IF Len(cs) = 1 /\ Len(cs[1].content) > CHUNK_SIZE * 2
             THEN chunk_by_size(text, fp)
             ELSE cs
    ELSE chunk_by_size(text, fp)

-----------------------------------------------------------------------------
(* embed.py: the in-memory store *)

\* a numpy array holding one row per chunk
ndarray(rows) == [tag |-> "ndarray", rows |-> rows]

\* faiss.IndexFlatIP(dimension) after index.add(rows)
IndexFlatIP(rows) == [tag |-> "IndexFlatIP", rows |-> rows]

\* _init_faiss_index and index.add: None when faiss cannot be imported
BuildIndex(rows) == IF faiss THEN IndexFlatIP(rows) ELSE None

\* embed_chunks(cs) when model.encode returns the rows vecs (one per chunk)
EmbedChunksOk(cs, vecs) ==
    /\ Len(cs) > 0
    /\ Len(vecs) = Len(cs)
    /\ chunks' = cs
    /\ embeddings' = ndarray(vecs)
    /\ index' = BuildIndex(vecs)

\* the text embed_chunks hands to the model for a chunk: f"File: {path}\n{content}"
EmbedText(c) ==
    <<"F", "i", "l", "e", ":", " ">> \o c.file_path \o <<NL>> \o c.content

\* model.encode for one text: the pluggable embedding model, here a fixed map
\* from a text to one of four unit rows
Encode(text) ==
    LET k == IF text = <<>> THEN 0
             ELSE (Len(text) + Code(text[Len(text)])) % 4
    IN  CASE k = 0 -> <<1, 0>>
          [] k = 1 -> <<0, 1>>
          [] k = 2 -> <<-1, 0>>
          [] OTHER -> <<0, -1>>

\* model.encode(texts) for the chunks' texts
EncodeChunks(cs) == [i \in 1..Len(cs) |-> Encode(EmbedText(cs[i]))]

\* seq[idx] with Python's indexing: 0-based, negative from the end
InRange(seq, idx) == -Len(seq) <= idx /\ idx < Len(seq)

PyIndex(seq, idx) == IF idx < 0 THEN seq[Len(seq) + idx + 1] ELSE seq[idx + 1]

RECURSIVE DotFrom(_, _, _)
DotFrom(u, v, i) ==
    IF i > Len(u) THEN 0 ELSE u[i] * v[i] + DotFrom(u, v, i + 1)

\* the inner product of two rows
Dot(u, v) == DotFrom(u, v, 1)

\* the orders in which a sort may leave 1..n, ascending by key (ties in any order)
AscendingOrders(n, key) ==
    {p \in [1..n -> 1..n] :
        /\ \A i, j \in 1..n : i # j => p[i] # p[j]
        /\ \A i \in 1..n - 1 : key[p[i]] <= key[p[i + 1]]}

Reverse(s) == [i \in 1..Len(s) |-> s[Len(s) + 1 - i]]

\* mutant of TopIndices: the [::-1] is forgotten
TopIndicesUnreversed(order, top_k) ==
    LET n == Len(order)
    IN  SliceFrom(order, IF top_k >= n THEN 0 ELSE n - top_k)

\* order[-top_k:][::-1]: the last top_k of an ascending order, best first
TopIndices(order, top_k) ==
    LET n == Len(order)
        from == IF top_k = 0 THEN 0
                ELSE IF top_k > 0 THEN (IF top_k >= n THEN 0 ELSE n - top_k)
                ELSE (IF -top_k >= n THEN n ELSE -top_k)
    IN  Reverse(SliceFrom(order, from))

\* the score faiss reports for a slot it could not fill (its index is -1)
NoScore == -(2 ^ 20)

\* index.search(q, k): the k best rows by inner product, best first, as
\* <<0-based row, score>>; slots beyond the index's rows are <<-1, NoScore>>
FaissSearch(idx, q, k) ==
    LET n == Len(idx.rows)
        sims == [i \in 1..n |-> Dot(idx.rows[i], q)]
    IN  {[j \in 1..k |->
            IF j <= n THEN <<o[n + 1 - j] - 1, sims[o[n + 1 - j]]>>
            ELSE <<-1, NoScore>>] : o \in AscendingOrders(n, sims)}

\* np.dot(embeddings, q.T) then argsort()[-top_k:][::-1], as <<0-based row, score>>
NumpySearch(emb, q, top_k) ==
    LET n == Len(emb.rows)
        sims == [i \in 1..n |-> Dot(emb.rows[i], q)]
    IN  {LET top == TopIndices(o, top_k)
         IN  [j \in 1..Len(top) |-> <<top[j] - 1, sims[top[j]]>>]
         : o \in AscendingOrders(n, sims)}

\* [(self.chunks[idx], score) for ...], IndexError when a row has no chunk
Pairs(found) ==
    IF \A j \in 1..Len(found) : InRange(chunks, found[j][1])
    THEN [tag |-> "list",
          val |-> [j \in 1..Len(found) |->
                      <<PyIndex(chunks, found[j][1]), found[j][2]>>]]
    ELSE Raised("IndexError")

\* what search(query, top_k) may return, q being the query's embedding
search(q, top_k) ==
    IF embeddings = None \/ Len(chunks) = 0 THEN {Raised("ValueError")}
    ELSE IF index # None
    THEN LET k == IF top_k < Len(chunks) THEN top_k ELSE Len(chunks)
         IN  IF k <= 0 THEN {Raised("AssertionError")}
             ELSE {Pairs(f) : f \in FaissSearch(index, q, k)}
    ELSE {Pairs(f) : f \in NumpySearch(embeddings, q, top_k)}

-----------------------------------------------------------------------------
(* embed.py: save and load *)

Absent == [tag |-> "absent"]

Corrupt == [tag |-> "corrupt"]

\* store_dir / name before the first save
NoDirectory ==
    [exists |-> FALSE, embeddings_npy |-> Absent, chunks_json |-> Absent,
     index_faiss |-> Absent]

RECURSIVE Flatten(_)
\* the rows of an array one after the other
Flatten(rows) == IF rows = <<>> THEN <<>> ELSE Head(rows) \o Flatten(Tail(rows))

\* ndarray.shape: (0,) for the array of no rows
Shape(rows) == IF rows = <<>> THEN <<0>> ELSE <<Len(rows), Len(rows[1])>>

\* the rows of a flat buffer of the given shape
Unflatten(shape, data) ==
    IF Len(shape) < 2 THEN <<>>
    ELSE [i \in 1..shape[1] |->
             SubSeq(data, (i - 1) * shape[2] + 1, i * shape[2])]

\* np.save: the file holds the shape and the flat buffer
NpSave(emb) ==
    [tag |-> "npy", shape |-> Shape(emb.rows), data |-> Flatten(emb.rows)]

\* np.load
NpLoad(file) == ndarray(Unflatten(file.shape, file.data))

\* the dict save writes for a chunk: its keys in order, each with its value
ChunkToDict(c) ==
    << <<"file_path", c.file_path>>, <<"content", c.content>>,
       <<"start_line", c.start_line>>, <<"end_line", c.end_line>>,
       <<"chunk_type", c.chunk_type>> >>

\* d[key]
Lookup(d, key) == d[CHOOSE i \in 1..Len(d) : d[i][1] = key][2]

\* mutant of DictToChunk: the two line numbers are read from each other's key
DictToChunkSwapped(d) ==
    CodeChunk(Lookup(d, "file_path"), Lookup(d, "content"),
              Lookup(d, "end_line"), Lookup(d, "start_line"),
              Lookup(d, "chunk_type"))

\* the CodeChunk load builds from a dict
DictToChunk(d) ==
    CodeChunk(Lookup(d, "file_path"), Lookup(d, "content"),
              Lookup(d, "start_line"), Lookup(d, "end_line"),
              Lookup(d, "chunk_type"))

\* json.dump(chunks_data, f)
JsonDump(cs) == [tag |-> "json", val |-> [i \in 1..Len(cs) |-> ChunkToDict(cs[i])]]

\* json.load(f) and the list comprehension over it
JsonLoad(file) == [i \in 1..Len(file.val) |-> DictToChunk(file.val[i])]

\* faiss.write_index
WriteIndex(idx) ==
    [tag |-> "faiss", shape |-> Shape(idx.rows), data |-> Flatten(idx.rows)]

\* faiss.read_index
ReadIndex(file) == IndexFlatIP(Unflatten(file.shape, file.data))

\* save_path.mkdir(parents=True, exist_ok=True)
MakeDir(d) == [d EXCEPT !.exists = TRUE]

\* "if self.embeddings is not None: np.save(...)"
SaveEmbeddingsFile(d, emb) ==
    IF emb # None THEN [d EXCEPT !.embeddings_npy = NpSave(emb)] ELSE d

\* the chunks.json that open(..., "w") and json.dump leave
SaveChunksFile(d, cs) == [d EXCEPT !.chunks_json = JsonDump(cs)]

\* "if self.index is not None: faiss.write_index(...)"
SaveIndexFile(d, idx) ==
    IF idx # None THEN [d EXCEPT !.index_faiss = WriteIndex(idx)] ELSE d

\* the directory after save(name) of the store (cs, emb, idx)
SavedDisk(d, cs, emb, idx) ==
    SaveIndexFile(SaveChunksFile(SaveEmbeddingsFile(MakeDir(d), emb), cs), idx)

\* load(name): the store's fields and the result after each of its steps
LoadEmbeddings(d, emb) ==
    IF d.embeddings_npy = Absent THEN emb ELSE NpLoad(d.embeddings_npy)

LoadChunks(d, cs) ==
    IF d.chunks_json = Absent THEN cs ELSE JsonLoad(d.chunks_json)

\* the except ImportError branch calls _init_faiss_index, whose own import fails
LoadIndex(d, idx) ==
    IF d.index_faiss = Absent THEN idx
    ELSE IF faiss THEN ReadIndex(d.index_faiss) ELSE None

\* <<chunks, embeddings, index, result>> of load(name) on the directory d
load(d, cs, emb, idx) ==
    IF ~d.exists THEN <<cs, emb, idx, Bool(FALSE)>>
    ELSE IF d.embeddings_npy = Corrupt
    THEN <<cs, emb, idx, Raised("CorruptFile")>>
    ELSE IF d.chunks_json = Corrupt
    THEN <<cs, LoadEmbeddings(d, emb), idx, Raised("CorruptFile")>>
    ELSE IF d.index_faiss = Corrupt /\ faiss
    THEN <<LoadChunks(d, cs), LoadEmbeddings(d, emb), idx, Raised("CorruptFile")>>
    ELSE <<LoadChunks(d, cs), LoadEmbeddings(d, emb), LoadIndex(d, idx),
           Bool(TRUE)>>

-----------------------------------------------------------------------------
(* tools.py, retrieve.py: retrieve *)

\* estimate_tokens: len(text) // 4
estimate_tokens(text) == Len(text) \div 4

HashModulus == 2 ^ 25 - 39

RECURSIVE HashRange(_, _, _)
\* the position-weighted sum of the character codes of s[lo..hi], by halves
HashRange(s, lo, hi) ==
    IF lo > hi THEN 0
    ELSE IF lo = hi THEN (Code(s[lo]) * lo) % HashModulus
    ELSE LET mid == (lo + hi) \div 2
         IN  (HashRange(s, lo, mid) + HashRange(s, mid + 1, hi)) % HashModulus

\* hash(text): a fixed function of the text into a bounded range of integers;
\* equal texts hash alike, different texts may collide
hash(text) == HashRange(text, 1, Len(text))

PREFIX_LEN == 500

\* mutant of content_hash: the whole content is hashed
content_hash_whole(c) == hash(c.content)

\* hash(chunk.content[:500])
content_hash(c) == hash(Prefix(c.content, PREFIX_LEN))

\* mutant of OverBudget: the running total is left out
OverBudgetAlone(total_tokens, chunk_tokens, max_tokens) ==
    chunk_tokens > max_tokens

\* total_tokens + chunk_tokens > max_tokens
OverBudget(total_tokens, chunk_tokens, max_tokens) ==
    total_tokens + chunk_tokens > max_tokens

\* mutant of CapReached: > for >=
CapReachedLate(filtered, top_k) == Len(filtered) > top_k

\* len(filtered_results) >= top_k
CapReached(filtered, top_k) == Len(filtered) >= top_k

RECURSIVE FilterLoopStopsAtBudget(_, _, _, _, _, _, _)
\* mutant of FilterLoop: the scan ends at the first chunk over the budget
FilterLoopStopsAtBudget(results, k, seen_content, filtered, total_tokens, top_k, max_tokens) ==
    IF k > Len(results) THEN filtered
    ELSE LET chunk == results[k][1]
             h == content_hash(chunk)
             chunk_tokens == estimate_tokens(chunk.content)
         IN  IF h \in seen_content
             THEN FilterLoopStopsAtBudget(results, k + 1, seen_content,
                                          filtered, total_tokens, top_k,
                                          max_tokens)
             ELSE IF OverBudget(total_tokens, chunk_tokens, max_tokens)
             THEN filtered
             ELSE LET filtered2 == Append(filtered, results[k])
                  IN  IF CapReached(filtered2, top_k) THEN filtered2
                      ELSE FilterLoopStopsAtBudget(results, k + 1,
                                                   seen_content \cup {h},
                                                   filtered2,
                                                   total_tokens + chunk_tokens,
                                                   top_k, max_tokens)

RECURSIVE FilterLoop(_, _, _, _, _, _, _)
\* "for chunk, score in results": deduplicate, budget, cap
FilterLoop(results, k, seen_content, filtered, total_tokens, top_k, max_tokens) ==
    IF k > Len(results) THEN filtered
    ELSE LET chunk == results[k][1]
             h == content_hash(chunk)
             chunk_tokens == estimate_tokens(chunk.content)
         IN  IF h \in seen_content
             THEN FilterLoop(results, k + 1, seen_content, filtered,
                             total_tokens, top_k, max_tokens)
             ELSE IF OverBudget(total_tokens, chunk_tokens, max_tokens)
             THEN FilterLoop(results, k + 1, seen_content \cup {h}, filtered,
                             total_tokens, top_k, max_tokens)
             ELSE LET filtered2 == Append(filtered, results[k])
                  IN  IF CapReached(filtered2, top_k) THEN filtered2
                      ELSE FilterLoop(results, k + 1, seen_content \cup {h},
                                      filtered2, total_tokens + chunk_tokens,
                                      top_k, max_tokens)

\* what retrieve(query, top_k, max_tokens) may return
retrieve(q, top_k, max_tokens) ==
    {IF r.tag = "raise" THEN r
     ELSE [tag |-> "list",
           val |-> FilterLoop(r.val, 1, {}, <<>>, 0, top_k, max_tokens)]
     : r \in search(q, top_k * 2)}

\* retrieve_as_context: the text returned when nothing was retrieved
NoRelevantCode ==
    <<"N", "o", " ", "r", "e", "l", "e", "v", "a", "n", "t", " ", "c", "o",
      "d", "e", " ", "f", "o", "u", "n", "d", " ", "i", "n", " ", "t", "h",
      "e", " ", "r", "e", "p", "o", "s", "i", "t", "o", "r", "y", ".">>

\* the first of the context parts
ContextHeader ==
    <<"H", "e", "r", "e", " ", "a", "r", "e", " ", "t", "h", "e", " ", "m",
      "o", "s", "t", " ", "r", "e", "l", "e", "v", "a", "n", "t", " ", "c",
      "o", "d", "e", " ", "s", "e", "c", "t", "i", "o", "n", "s", " ", "f",
      "r", "o", "m", " ", "t", "h", "e", " ", "r", "e", "p", "o", "s", "i",
      "t", "o", "r", "y", ":", NL>>

RECURSIVE IntToStr(_)
\* str(n) for an integer
IntToStr(n) ==
    IF n < 0 THEN <<"-">> \o IntToStr(-n)
    ELSE IF n < 10
         THEN <<CASE n = 0 -> "0" [] n = 1 -> "1" [] n = 2 -> "2" [] n = 3 -> "3"
                  [] n = 4 -> "4" [] n = 5 -> "5" [] n = 6 -> "6" [] n = 7 -> "7"
                  [] n = 8 -> "8" [] OTHER -> "9">>
         ELSE IntToStr(n \div 10) \o IntToStr(n % 10)

\* f"{score:.2f}" for a score that is a whole number
FormatScore(score) == IntToStr(score) \o <<".", "0", "0">>

\* f"{chunk.file_path}:{chunk.start_line}-{chunk.end_line}"
Location(c) ==
    c.file_path \o <<":">> \o IntToStr(c.start_line) \o <<"-">>
        \o IntToStr(c.end_line)

\* the backquote character of the code fence, written by name
BT == "backquote"

\* the two parts appended for the i-th result
ContextParts(i, pair) ==
    <<(<<NL, "-", "-", "-", " ", "[">> \o IntToStr(i) \o <<"]", " ">>
         \o Location(pair[1])
         \o <<" ", "(", "r", "e", "l", "e", "v", "a", "n", "c", "e", ":", " ">>
         \o FormatScore(pair[2]) \o <<")", " ", "-", "-", "-", NL>>),
      (<<BT, BT, BT, NL>> \o pair[1].content \o <<NL, BT, BT, BT, NL>>)>>

RECURSIVE AllContextParts(_, _)
\* "for i, (chunk, score) in enumerate(results, 1)"
AllContextParts(results, i) ==
    IF i > Len(results) THEN <<>>
    ELSE ContextParts(i, results[i]) \o AllContextParts(results, i + 1)

\* "if not results: return ..." and the join of the context parts
FormatContext(results) ==
    IF results = <<>> THEN NoRelevantCode
    ELSE Join(<<ContextHeader>> \o AllContextParts(results, 1))

\* what retrieve_as_context(query, top_k, max_tokens) may return
retrieve_as_context(q, top_k, max_tokens) ==
    {IF r.tag = "raise" THEN r ELSE Str(FormatContext(r.val))
     : r \in retrieve(q, top_k, max_tokens)}

-----------------------------------------------------------------------------
(* retrieve.py: get_file_context *)

RECURSIVE InsertByStart(_, _)
\* c placed after every chunk of the sorted list whose start_line is <= its own
InsertByStart(sorted, c) ==
    IF sorted = <<>> THEN <<c>>
    ELSE IF c.start_line < Head(sorted).start_line THEN <<c>> \o sorted
    ELSE <<Head(sorted)>> \o InsertByStart(Tail(sorted), c)

RECURSIVE SortByStart(_)
\* matching_chunks.sort(key=lambda c: c.start_line), a stable sort
SortByStart(cs) ==
    IF cs = <<>> THEN <<>>
    ELSE InsertByStart(SortByStart(SubSeq(cs, 1, Len(cs) - 1)), cs[Len(cs)])

\* mutant of NewStart: off by one, the last covered line is taken again
NewStartOffByOne(last_end, c) == last_end - c.start_line

\* the 0-based index of the first line of an overlapping chunk that is new
NewStart(last_end, c) == last_end - c.start_line + 1

RECURSIVE Combine(_, _, _, _)
\* the loop over the sorted chunks
Combine(ms, k, combined, last_end) ==
    IF k > Len(ms) THEN combined
    ELSE LET c == ms[k]
             lines == Split(c.content)
             new_start == NewStart(last_end, c)
             combined2 ==
                 IF c.start_line > last_end THEN Append(combined, c.content)
                 ELSE IF c.end_line > last_end /\ new_start < Len(lines)
                      THEN Append(combined, Join(SliceFrom(lines, new_start)))
                      ELSE combined
         IN  Combine(ms, k + 1, combined2,
                     IF c.end_line > last_end THEN c.end_line ELSE last_end)

\* mutant of ChunksAfterSort: the store's own list is sorted
ChunksSortedInPlace(store_chunks) == SortByStart(store_chunks)

\* self.store.chunks after get_file_context: matching_chunks is a list of its
\* own, so sorting it leaves the store's list as it was
ChunksAfterSort(store_chunks) == store_chunks

\* store_chunks is self.store.chunks
get_file_context(store_chunks, fp) ==
    LET Matches(c) == c.file_path = fp
        matching == SelectSeq(store_chunks, Matches)
    IN  IF matching = <<>> THEN None
        ELSE Str(Join(Combine(SortByStart(matching), 1, <<>>, 0)))

\* the specifications of one process leave the second process out
NoSecondProcess ==
    /\ writer = None
    /\ pcSave = "none"
    /\ pcLoad = "none"
    /\ versions = <<>>
    /\ oldAtLoad = None

-----------------------------------------------------------------------------
(* The chunking specification: one file is chunked, indexed and read back *)

PyPath == <<"a", ".", "p", "y">>
JsPath == <<"b", ".", "j", "s">>

Paths == {PyPath, JsPath}

LBlank == <<>>
LBody == <<" ", "y">>
LDef == <<"d", "e", "f", " ", "f">>
LNestedDef == <<" ", "d", "e", "f", " ", "g">>
LClass == <<"c", "l", "a", "s", "s", " ", "C">>
LShort == Rep("v", 98)
LLong == Rep("z", 1400)

LinePool == {LBlank, LBody, LDef, LNestedDef, LClass, LShort, LLong}

FileTexts ==
    {Join(ls) : ls \in UNION {[1..n -> LinePool] : n \in 1..MaxLines}}

InitChunk ==
    /\ path \in Paths
    /\ content \in FileTexts
    /\ chunks = <<>>
    /\ embeddings = None
    /\ index = None
    /\ faiss = FALSE
    /\ op = "init"
    /\ arg = <<>>
    /\ ret = None
    /\ disk = NoDirectory
    /\ before = None
    /\ saved = None
    /\ built = FALSE
    /\ faults = 0
    /\ NoSecondProcess

ExtractPythonChunks ==
    /\ op = "init"
    /\ op' = "extract_python_chunks"
    /\ arg' = <<content, path>>
    /\ ret' = ChunkList(extract_python_chunks(content, path))
    /\ UNCHANGED <<path, content, chunks, embeddings, index, faiss, disk, before,
                   saved, built, faults, concVars>>

ChunkBySize ==
    /\ op = "init"
    /\ op' = "chunk_by_size"
    /\ arg' = <<content, path>>
    /\ ret' = ChunkList(chunk_by_size(content, path))
    /\ UNCHANGED <<path, content, chunks, embeddings, index, faiss, disk, before,
                   saved, built, faults, concVars>>

ChunkCode ==
    /\ op = "init"
    /\ op' = "chunk_code"
    /\ arg' = <<content, path>>
    /\ ret' = ChunkList(chunk_code(content, path))
    /\ UNCHANGED <<path, content, chunks, embeddings, index, faiss, disk, before,
                   saved, built, faults, concVars>>

\* index_repository on a repository holding this one file
IndexFile ==
    /\ op = "chunk_code"
    /\ EmbedChunksOk(ret.val, EncodeChunks(ret.val))
    /\ op' = "embed_chunks"
    /\ arg' = <<ret.val>>
    /\ ret' = embeddings'
    /\ UNCHANGED <<path, content, faiss, disk, before, saved, built, faults,
                   concVars>>

GetFileContext ==
    /\ op = "embed_chunks"
    /\ \E fp \in Paths :
          /\ op' = "get_file_context"
          /\ arg' = <<fp>>
          /\ ret' = get_file_context(chunks, fp)
    /\ chunks' = ChunksAfterSort(chunks)
    /\ UNCHANGED <<path, content, embeddings, index, faiss, disk, before,
                   saved, built, faults, concVars>>

NextChunk ==
    \/ ExtractPythonChunks
    \/ ChunkBySize
    \/ ChunkCode
    \/ IndexFile
    \/ GetFileContext

SpecChunk == InitChunk /\ [][NextChunk]_vars

-----------------------------------------------------------------------------
(* The retrieval specification: a store is built, then searched *)

\* most chunks handed to embed_chunks
MaxRChunks == 3

\* largest top_k handed to retrieve (search is asked for twice as many)
MaxTopK == 2

LongX == Rep("a", PREFIX_LEN) \o <<"x">>
LongY == Rep("a", PREFIX_LEN) \o <<"y">>

\* the chunks of a small repository, in the order ingestion yields them; the
\* first two differ only after their first 500 characters
RetrPool ==
    <<CodeChunk(PyPath, LongX, 1, 9, "function"),
      CodeChunk(PyPath, LongY, 10, 19, "function"),
      CodeChunk(PyPath, Rep("b", 40), 20, 21, "block"),
      CodeChunk(JsPath, Rep("d", 3), 1, 1, "block")>>

RECURSIVE Pick(_, _, _)
\* the chunks of the pool at the positions in S, in the pool's order
Pick(pool, S, k) ==
    IF k > Len(pool) THEN <<>>
    ELSE (IF k \in S THEN <<pool[k]>> ELSE <<>>) \o Pick(pool, S, k + 1)

\* the lists of at most max chunks of the pool, none taken twice
ListsOf(pool, max) ==
    {Pick(pool, S, 1) : S \in {T \in SUBSET (1..Len(pool)) :
                                  T # {} /\ Cardinality(T) <= max}}

RetrLists == ListsOf(RetrPool, MaxRChunks)

Queries == {<<"a">>, <<"b">>, <<"c">>, <<"d">>}

TokenBudgets == {1, 10, 125, 250}

InitRetr ==
    /\ path = PyPath
    /\ content = <<>>
    /\ chunks = <<>>
    /\ embeddings = None
    /\ index = None
    /\ faiss \in BOOLEAN
    /\ op = "init"
    /\ arg = <<>>
    /\ ret = None
    /\ disk = NoDirectory
    /\ before = None
    /\ saved = None
    /\ built = FALSE
    /\ faults = 0
    /\ NoSecondProcess

\* embed_chunks(cs), model.encode succeeding
EmbedChunks(cs) ==
    /\ EmbedChunksOk(cs, EncodeChunks(cs))
    /\ op' = "embed_chunks"
    /\ arg' = <<cs>>
    /\ ret' = embeddings'
    /\ UNCHANGED <<path, content, faiss, disk, before, saved, built, faults,
                   concVars>>

BuildStore ==
    /\ op = "init"
    /\ \E cs \in RetrLists : EmbedChunks(cs)

Search(query, top_k) ==
    /\ op' = "search"
    /\ arg' = [query |-> query, top_k |-> top_k]
    /\ ret' \in search(Encode(query), top_k)
    /\ UNCHANGED <<path, content, chunks, embeddings, index, faiss, disk, before,
                   saved, built, faults, concVars>>

Retrieve(query, top_k, max_tokens) ==
    /\ op' = "retrieve"
    /\ arg' = [query |-> query, top_k |-> top_k, max_tokens |-> max_tokens]
    /\ ret' \in retrieve(Encode(query), top_k, max_tokens)
    /\ UNCHANGED <<path, content, chunks, embeddings, index, faiss, disk, before,
                   saved, built, faults, concVars>>

RetrieveAsContext(query, top_k, max_tokens) ==
    /\ op' = "retrieve_as_context"
    /\ arg' = [query |-> query, top_k |-> top_k, max_tokens |-> max_tokens]
    /\ ret' \in retrieve_as_context(Encode(query), top_k, max_tokens)
    /\ UNCHANGED <<path, content, chunks, embeddings, index, faiss, disk, before,
                   saved, built, faults, concVars>>

FileContext(fp) ==
    /\ op' = "get_file_context"
    /\ arg' = <<fp>>
    /\ ret' = get_file_context(chunks, fp)
    /\ chunks' = ChunksAfterSort(chunks)
    /\ UNCHANGED <<path, content, embeddings, index, faiss, disk, before,
                   saved, built, faults, concVars>>

SearchStore ==
    /\ op \in {"init", "embed_chunks"}
    /\ \E query \in Queries, top_k \in 1..2 * MaxTopK : Search(query, top_k)

RetrieveStore ==
    /\ op \in {"init", "embed_chunks"}
    /\ \E query \in Queries, top_k \in 1..MaxTopK, max_tokens \in TokenBudgets :
          Retrieve(query, top_k, max_tokens)

\* retrieve with a top_k or a max_tokens that is not positive
RetrieveInvalid ==
    /\ op \in {"init", "embed_chunks"}
    /\ \E query \in Queries, top_k \in -1..MaxTopK,
          max_tokens \in TokenBudgets \cup {-1, 0} :
          /\ top_k <= 0 \/ max_tokens <= 0
          /\ Retrieve(query, top_k, max_tokens)

RetrieveAsContextStore ==
    /\ op \in {"init", "embed_chunks"}
    /\ \E query \in Queries, top_k \in 1..MaxTopK, max_tokens \in TokenBudgets :
          RetrieveAsContext(query, top_k, max_tokens)

FileContextStore ==
    /\ op \in {"init", "embed_chunks"}
    /\ \E fp \in Paths : FileContext(fp)

NextRetr ==
    \/ BuildStore
    \/ SearchStore
    \/ RetrieveStore
    \/ RetrieveInvalid
    \/ RetrieveAsContextStore
    \/ FileContextStore

SpecRetr == InitRetr /\ [][NextRetr]_vars

-----------------------------------------------------------------------------
(* Properties of the chunkers and of get_file_context (SpecChunk) *)

\* the number of lines of a text: one more than its line breaks
LineCount(text) == Cardinality({i \in 1..Len(text) : text[i] = NL}) + 1

\* C2: the chunks extract_python_chunks returns, in list order, partition the
\* lines 1..N of the text: the first starts at line 1, each later one starts at
\* the previous one's end_line + 1, and the last ends at N.
C2_StructuralPartition ==
    op = "extract_python_chunks" =>
        LET cs == ret.val
        IN  /\ Len(cs) >= 1
            /\ cs[1].start_line = 1
            /\ cs[Len(cs)].end_line = LineCount(content)
            /\ \A k \in 1..Len(cs) : cs[k].start_line <= cs[k].end_line
            /\ \A k \in 1..Len(cs) - 1 : cs[k + 1].start_line = cs[k].end_line + 1

\* a block of top-level lines, then a definition with its body
C2_Witness ==
    /\ op = "extract_python_chunks"
    /\ Len(ret.val) = 2
    /\ ret.val[1].chunk_type = "block"
    /\ ret.val[2].chunk_type = "function"
    /\ ret.val[2].end_line > ret.val[2].start_line

\* C7: when the store's chunks for a path are the chunks chunk_code produced
\* for a text, get_file_context(path) returns exactly that text.
C7_FileContextRoundTrip ==
    (op = "get_file_context" /\ arg = <<path>>) => ret = Str(content)

\* fixed-size chunks whose line ranges overlap, the later one adding new lines
C7_Witness ==
    /\ op = "get_file_context"
    /\ arg = <<path>>
    /\ ret = Str(content)
    /\ \E k \in 1..Len(chunks) - 1 :
          /\ chunks[k + 1].start_line <= chunks[k].end_line
          /\ chunks[k + 1].end_line > chunks[k].end_line

\* C17 (as claimed): chunk_code on empty content returns no chunk.
C17_EmptyContentNoChunk ==
    (op = "chunk_code" /\ content = <<>>) => ret.val = <<>>

\* the lines of the file being chunked
Lines == Split(content)

\* the line a definition chunk that starts at line d should end before: the
\* first later line that is not blank and indented no deeper than line d
\* (one past the last line when there is none)
StopLine(d) ==
    Min({j \in d + 1..Len(Lines) :
            ~IsBlank(Lines[j]) /\ Indent(Lines[j]) <= Indent(Lines[d])}
        \cup {Len(Lines) + 1})

\* C18 (as claimed): the chunk of a function or class ends immediately before
\* the first later non-blank line indented no deeper than the definition
\* line, whether or not that line is a definition.
C18_DefinitionEndsAtDedent ==
    op = "extract_python_chunks" =>
        \A k \in 1..Len(ret.val) :
            ret.val[k].chunk_type \in {"function", "class"} =>
                ret.val[k].end_line = StopLine(ret.val[k].start_line) - 1

\* no line of the text matches func_pattern or class_pattern
NoDefinition(text) ==
    \A j \in 1..Len(Split(text)) :
        ~func_pattern(Split(text)[j]) /\ ~class_pattern(Split(text)[j])

\* C19 (as claimed): for a text without a function or class definition,
\* chunk_code returns the chunks of chunk_by_size, whatever the path and
\* the length.
C19_NoDefinitionIsFixedSize ==
    (op = "chunk_code" /\ NoDefinition(content)) =>
        ret.val = chunk_by_size(content, path)

\* C19 (amended): for a text without a function or class definition,
\* chunk_code returns the chunks of chunk_by_size when the path is not a
\* Python path or the text is longer than 2 * CHUNK_SIZE characters, and
\* otherwise one block chunk holding the whole text.
C19_NoDefinitionChunks ==
    (op = "chunk_code" /\ NoDefinition(content)) =>
        IF Suffix(path) # <<".", "p", "y">> \/ Len(content) > 2 * CHUNK_SIZE
        THEN ret.val = chunk_by_size(content, path)
        ELSE ret.val = <<CodeChunk(path, content, 1, LineCount(content), "block")>>

\* a Python text without definitions, long enough to be chunked by size
C19_Witness ==
    /\ op = "chunk_code"
    /\ NoDefinition(content)
    /\ Suffix(path) = <<".", "p", "y">>
    /\ Len(content) > 2 * CHUNK_SIZE
    /\ Len(ret.val) >= 2
    /\ ret.val = chunk_by_size(content, path)

\* the characters of the lines of a chunk, line breaks left out
LineChars(c) == Len(c.content) - (LineCount(c.content) - 1)

\* the last line of a chunk
LastLine(c) == Split(c.content)[LineCount(c.content)]

\* C20 (as claimed): every chunk of chunk_by_size but the last has at least
\* CHUNK_SIZE characters and fewer than CHUNK_SIZE plus the average length of
\* its lines.
C20_SizeWithinAverage ==
    op = "chunk_by_size" =>
        \A k \in 1..Len(ret.val) - 1 :
            /\ Len(ret.val[k].content) >= CHUNK_SIZE
            /\ (Len(ret.val[k].content) - CHUNK_SIZE)
                    * LineCount(ret.val[k].content) < LineChars(ret.val[k])

\* C20 (amended): every chunk of chunk_by_size but the last has at least
\* CHUNK_SIZE - 1 characters and fewer than CHUNK_SIZE plus the length of its
\* last line.
C20_SizeWithinLastLine ==
    op = "chunk_by_size" =>
        \A k \in 1..Len(ret.val) - 1 :
            /\ Len(ret.val[k].content) >= CHUNK_SIZE - 1
            /\ Len(ret.val[k].content) < CHUNK_SIZE + Len(LastLine(ret.val[k]))

\* a chunk that is not the last holds exactly CHUNK_SIZE - 1 characters
C20_Witness ==
    /\ op = "chunk_by_size"
    /\ Len(ret.val) >= 2
    /\ \E k \in 1..Len(ret.val) - 1 :
          Len(ret.val[k].content) = CHUNK_SIZE - 1

\* the number of lines the chunk after c repeats, by the line numbers
SharedCount(c, d) == c.end_line - d.start_line + 1

\* the last m lines of chunk c
LastLines(c, m) ==
    SubSeq(Split(c.content), LineCount(c.content) - m + 1, LineCount(c.content))

\* the later chunk d begins with the n lines that end the earlier chunk c
BeginsWithEndOf(c, d, n) ==
    /\ n >= 0
    /\ n <= LineCount(c.content)
    /\ n <= LineCount(d.content)
    /\ SubSeq(Split(d.content), 1, n) = LastLines(c, n)

\* C21, as the specification states it: every pair of consecutive chunks of
\* chunk_by_size shares at least one line, the later chunk beginning with a
\* non-empty run of the lines that end the earlier chunk, in the same order.
C21_ConsecutiveShareLine ==
    op = "chunk_by_size" =>
        \A k \in 1..Len(ret.val) - 1 :
            /\ SharedCount(ret.val[k], ret.val[k + 1]) >= 1
            /\ BeginsWithEndOf(ret.val[k], ret.val[k + 1],
                               SharedCount(ret.val[k], ret.val[k + 1]))

\* C21, amended: the later of two consecutive chunks of chunk_by_size begins
\* with the longest run of the lines ending the earlier chunk whose text,
\* joined by newlines, has at most CHUNK_OVERLAP characters; the run is empty,
\* and the later chunk starts on the next line, exactly when the earlier
\* chunk's last line alone is longer than CHUNK_OVERLAP.
C21_OverlapWithinBudget ==
    op = "chunk_by_size" =>
        \A k \in 1..Len(ret.val) - 1 :
            LET c == ret.val[k]
                d == ret.val[k + 1]
                n == SharedCount(c, d)
                Fits(m) == Len(Join(LastLines(c, m))) <= CHUNK_OVERLAP
            IN  /\ BeginsWithEndOf(c, d, n)
                /\ Fits(n)
                /\ n < LineCount(c.content) => ~Fits(n + 1)
                /\ (n = 0) <=> (Len(LastLine(c)) > CHUNK_OVERLAP)

\* two consecutive chunks that share two lines
C21_Witness ==
    /\ op = "chunk_by_size"
    /\ \E k \in 1..Len(ret.val) - 1 :
          /\ SharedCount(ret.val[k], ret.val[k + 1]) = 2
          /\ ret.val[k + 1].content = Join(LastLines(ret.val[k], 2))

-----------------------------------------------------------------------------
(* Properties of search and retrieve (SpecRetr) *)

RECURSIVE SumTokens(_)
\* the estimated tokens of the chunks of a result
SumTokens(pairs) ==
    IF pairs = <<>> THEN 0
    ELSE estimate_tokens(Head(pairs)[1].content) + SumTokens(Tail(pairs))

MinOf(a, b) == IF a < b THEN a ELSE b

\* a chunk of the store that the result left out although nothing in the result
\* shares its content prefix
LeftOut(c) ==
    \A j \in 1..Len(ret.val) :
        Prefix(ret.val[j][1].content, PREFIX_LEN) # Prefix(c.content, PREFIX_LEN)

\* every chunk of the store was a candidate of the retrieve call
AllCandidates == Len(chunks) <= 2 * arg.top_k

\* C3: for top_k >= 1, retrieve returns at most top_k pairs.
C3_AtMostTopK ==
    (op = "retrieve" /\ arg.top_k >= 1 /\ ret.tag = "list") =>
        Len(ret.val) <= arg.top_k

\* the cap cut the scan short: a candidate that fits the budget was left out
C3_Witness ==
    /\ op = "retrieve"
    /\ ret.tag = "list"
    /\ Len(ret.val) = arg.top_k
    /\ AllCandidates
    /\ \E k \in 1..Len(chunks) :
          /\ LeftOut(chunks[k])
          /\ SumTokens(ret.val) + estimate_tokens(chunks[k].content)
                <= arg.max_tokens

\* C4: for max_tokens >= 1, the estimated tokens of the returned chunks sum to
\* at most max_tokens.
C4_WithinBudget ==
    (op = "retrieve" /\ arg.max_tokens >= 1 /\ ret.tag = "list") =>
        SumTokens(ret.val) <= arg.max_tokens

\* a candidate was skipped for the budget after another had been accepted
C4_Witness ==
    /\ op = "retrieve"
    /\ ret.tag = "list"
    /\ AllCandidates
    /\ Len(ret.val) >= 1
    /\ Len(ret.val) < arg.top_k
    /\ SumTokens(ret.val) > 0
    /\ \E k \in 1..Len(chunks) :
          /\ LeftOut(chunks[k])
          /\ estimate_tokens(chunks[k].content) <= arg.max_tokens
          /\ SumTokens(ret.val) + estimate_tokens(chunks[k].content)
                > arg.max_tokens

\* C5: no two chunks of one retrieve result have the same first 500 characters.
C5_NoDuplicatePrefix ==
    (op = "retrieve" /\ ret.tag = "list") =>
        \A i, j \in 1..Len(ret.val) :
            i # j => Prefix(ret.val[i][1].content, PREFIX_LEN)
                       # Prefix(ret.val[j][1].content, PREFIX_LEN)

\* two candidates of different content shared their first 500 characters, the
\* budget and the cap had room for both, and one was returned
C5_Witness ==
    /\ op = "retrieve"
    /\ ret.tag = "list"
    /\ AllCandidates
    /\ Len(ret.val) = 1
    /\ arg.top_k = 2
    /\ Len(chunks) = 2
    /\ chunks[1].content # chunks[2].content
    /\ Prefix(chunks[1].content, PREFIX_LEN) = Prefix(chunks[2].content, PREFIX_LEN)
    /\ estimate_tokens(chunks[1].content) + estimate_tokens(chunks[2].content)
          <= arg.max_tokens

\* C6: on a populated store search returns min(top_k, number of chunks) pairs
\* whose scores never increase from first to last, with or without faiss.
C6_SearchSorted ==
    (op = "search" /\ embeddings # None /\ Len(chunks) > 0) =>
        /\ ret.tag = "list"
        /\ Len(ret.val) = MinOf(arg.top_k, Len(chunks))
        /\ \A j \in 1..Len(ret.val) - 1 : ret.val[j][2] >= ret.val[j + 1][2]

\* the brute-force path cut a list of different scores down to top_k
C6_Witness ==
    /\ op = "search"
    /\ index = None
    /\ ret.tag = "list"
    /\ arg.top_k < Len(chunks)
    /\ Len(ret.val) >= 2
    /\ ret.val[1][2] > ret.val[2][2]

\* the same on the faiss path
C6_WitnessFaiss ==
    /\ op = "search"
    /\ index # None
    /\ ret.tag = "list"
    /\ arg.top_k < Len(chunks)
    /\ Len(ret.val) >= 2
    /\ ret.val[1][2] > ret.val[2][2]

\* C22: the result of retrieve is a subsequence of the candidates search
\* returned, in their order, each pair as search gave it; a candidate is left
\* out only because an earlier candidate has its content prefix, because it
\* does not fit the budget left by the candidates accepted before it, or
\* because top_k candidates were accepted before it, so a later candidate that
\* fits is accepted; the scores of the result do not increase.
C22_SubsequenceInOrder ==
    (op = "retrieve" /\ ret.tag = "list") =>
        /\ \E r \in search(Encode(arg.query), 2 * arg.top_k) :
              /\ r.tag = "list"
              /\ \E f \in [1..Len(ret.val) -> 1..Len(r.val)] :
                    /\ \A j \in 1..Len(ret.val) - 1 : f[j] < f[j + 1]
                    /\ \A j \in 1..Len(ret.val) : ret.val[j] = r.val[f[j]]
                    /\ \A i \in 1..Len(r.val) :
                          LET accepted == {j \in 1..Len(ret.val) : f[j] < i}
                              n == Cardinality(accepted)
                          IN  (\A j \in 1..Len(ret.val) : f[j] # i) =>
                                \/ n >= 1 /\ n >= arg.top_k
                                \/ \E e \in 1..i - 1 :
                                      Prefix(r.val[e][1].content, PREFIX_LEN)
                                        = Prefix(r.val[i][1].content, PREFIX_LEN)
                                \/ SumTokens(SubSeq(ret.val, 1, n))
                                      + estimate_tokens(r.val[i][1].content)
                                        > arg.max_tokens
        /\ \A j \in 1..Len(ret.val) - 1 : ret.val[j][2] >= ret.val[j + 1][2]

\* the best candidate alone is over the budget and the result starts with the
\* candidate after it
C22_Witness ==
    /\ op = "retrieve"
    /\ ret.tag = "list"
    /\ ret.val # <<>>
    /\ \A r \in search(Encode(arg.query), 2 * arg.top_k) :
          /\ r.tag = "list"
          /\ Len(r.val) >= 2
          /\ estimate_tokens(r.val[1][1].content) > arg.max_tokens
          /\ ret.val[1] = r.val[2]

\* the calls that only read the store
ReadOnlyCalls == {"search", "retrieve", "retrieve_as_context", "get_file_context"}

\* what the call that ran last may return when it is made again now
LastCallAgain ==
    CASE op = "search" -> search(Encode(arg.query), arg.top_k)
      [] op = "retrieve" ->
            retrieve(Encode(arg.query), arg.top_k, arg.max_tokens)
      [] op = "retrieve_as_context" ->
            retrieve_as_context(Encode(arg.query), arg.top_k, arg.max_tokens)
      [] op = "get_file_context" -> {get_file_context(chunks, arg[1])}
      [] OTHER -> {}

\* C14: search, retrieve, retrieve_as_context and get_file_context leave the
\* store's chunks, embeddings and index as they were, and the result of the
\* call is a result of the same call made again on the store it left.
C14_ReadOnly ==
    /\ [][op' \in ReadOnlyCalls =>
            /\ chunks' = chunks
            /\ embeddings' = embeddings
            /\ index' = index]_vars
    /\ [](op \in ReadOnlyCalls => ret \in LastCallAgain)

\* get_file_context sorted the chunks of a file of a store whose own list is
\* not in start_line order
C14_Witness ==
    /\ op = "get_file_context"
    /\ ret.tag = "str"
    /\ \E k \in 1..Len(chunks) - 1 :
          chunks[k + 1].start_line < chunks[k].start_line

\* no chunk of the store fits the budget alone (so none survives filtering)
NothingFits ==
    \A k \in 1..Len(chunks) :
        estimate_tokens(chunks[k].content) > arg.max_tokens

\* C15 (as claimed): retrieve_as_context never raises and never returns the
\* empty string, and returns the "no relevant code" text whenever no chunk
\* survives filtering, a store without chunks included.
C15_NoRelevantCode ==
    op = "retrieve_as_context" =>
        /\ ret.tag = "str"
        /\ ret.val # <<>>
        /\ NothingFits => ret = Str(NoRelevantCode)

\* C16 (as claimed): on a populated store, retrieve with top_k <= 0 or
\* max_tokens <= 0 raises or returns the empty list.
C16_InvalidGivesNothing ==
    (/\ op = "retrieve"
     /\ arg.top_k <= 0 \/ arg.max_tokens <= 0
     /\ embeddings # None
     /\ Len(chunks) > 0) =>
        ret.tag = "raise" \/ ret.val = <<>>

-----------------------------------------------------------------------------
(* The store specification: one store is built, saved and loaded, one         *)
(* operation after the other; a new process starts with a new store           *)

\* most chunks handed to embed_chunks
MaxChunks == 2

\* most calls that fail, or files damaged, in one behaviour
MaxFaults == 1

\* the chunks of a small repository, in the order ingestion yields them
StorePool ==
    <<CodeChunk(PyPath, <<"x">>, 1, 1, "block"),
      CodeChunk(JsPath, LDef \o <<NL, " ", "x">>, 2, 3, "function")>>

StoreLists == ListsOf(StorePool, MaxChunks)

\* the queries handed to search on this store
StoreQueries == {<<"a">>}

Fields == [chunks |-> chunks, embeddings |-> embeddings, index |-> index]

\* the fields VectorStore.__init__ sets
FreshFields == [chunks |-> <<>>, embeddings |-> None, index |-> None]

InitStore ==
    /\ path = PyPath
    /\ content = <<>>
    /\ chunks = <<>>
    /\ embeddings = None
    /\ index = None
    /\ faiss \in BOOLEAN
    /\ disk = NoDirectory
    /\ op = "init"
    /\ arg = <<>>
    /\ ret = None
    /\ before = None
    /\ saved = None
    /\ built = FALSE
    /\ faults = 0
    /\ NoSecondProcess

\* a new process constructs VectorStore(); faiss may or may not be installed there
NewStore ==
    /\ chunks' = <<>>
    /\ embeddings' = None
    /\ index' = None
    /\ faiss' \in BOOLEAN
    /\ op' = "init"
    /\ arg' = <<>>
    /\ ret' = None
    /\ before' = None
    /\ built' = FALSE
    /\ UNCHANGED <<path, content, disk, saved, faults, concVars>>

\* embed_chunks(cs), model.encode succeeding
EmbedBuilt ==
    \E cs \in StoreLists :
        /\ EmbedChunksOk(cs, EncodeChunks(cs))
        /\ op' = "embed_chunks"
        /\ arg' = <<cs>>
        /\ ret' = embeddings'
        /\ before' = None
        /\ built' = TRUE
        /\ UNCHANGED <<path, content, faiss, disk, saved, faults, concVars>>

\* embed_chunks([]): encode returns the array of shape (0,), whose shape[1]
\* raises IndexError after chunks and embeddings were assigned
EmbedNothing ==
    /\ faults < MaxFaults
    /\ faults' = faults + 1
    /\ chunks' = <<>>
    /\ embeddings' = ndarray(<<>>)
    /\ op' = "embed_chunks"
    /\ arg' = <<<<>>>>
    /\ ret' = Raised("IndexError")
    /\ before' = Fields
    /\ built' = FALSE
    /\ UNCHANGED <<path, content, index, faiss, disk, saved, concVars>>

\* embed_chunks(cs), model.encode raising: self.chunks is already assigned
EmbedEncodeRaises ==
    \E cs \in StoreLists :
        /\ faults < MaxFaults
        /\ faults' = faults + 1
        /\ chunks' = cs
        /\ op' = "embed_chunks"
        /\ arg' = <<cs>>
        /\ ret' = Raised("EncodeError")
        /\ before' = Fields
        /\ built' = FALSE
        /\ UNCHANGED <<path, content, embeddings, index, faiss, disk, saved, concVars>>

\* embed_chunks(cs), _load_model raising: nothing is assigned yet
EmbedNoModel ==
    /\ faults < MaxFaults
    /\ faults' = faults + 1
    /\ op' = "embed_chunks"
    /\ \E cs \in StoreLists \cup {<<>>} : arg' = <<cs>>
    /\ ret' = Raised("ImportError")
    /\ before' = Fields
    /\ UNCHANGED <<path, content, chunks, embeddings, index, faiss, disk,
                   saved, built, concVars>>

Save ==
    /\ disk' = SavedDisk(disk, chunks, embeddings, index)
    /\ op' = "save"
    /\ arg' = <<>>
    /\ ret' = None
    /\ before' = None
    /\ saved' = [chunks |-> chunks, embeddings |-> embeddings, index |-> index,
                 built |-> built]
    /\ UNCHANGED <<path, content, chunks, embeddings, index, faiss, built,
                   faults, concVars>>

Load ==
    LET r == load(disk, chunks, embeddings, index)
    IN  /\ chunks' = r[1]
        /\ embeddings' = r[2]
        /\ index' = r[3]
        /\ op' = "load"
        /\ arg' = <<>>
        /\ ret' = r[4]
        /\ before' = IF r[4].tag = "raise" \/ Fields = FreshFields
                      THEN Fields ELSE None
        /\ built' = (built /\ Fields = [chunks |-> r[1], embeddings |-> r[2],
                                        index |-> r[3]])
        /\ UNCHANGED <<path, content, faiss, disk, saved, faults, concVars>>

\* a file of the directory is damaged from outside
CorruptFile ==
    /\ faults < MaxFaults
    /\ faults' = faults + 1
    /\ disk.exists
    /\ \E f \in {"embeddings_npy", "chunks_json", "index_faiss"} :
          /\ disk[f] \notin {Absent, Corrupt}
          /\ disk' = [disk EXCEPT ![f] = Corrupt]
    /\ saved' = None
    /\ UNCHANGED <<path, content, chunks, embeddings, index, faiss, op, arg,
                   ret, before, built, concVars>>

\* search(query, top_k) on the store as it is
SearchStored ==
    /\ op # "search"
    /\ \E query \in StoreQueries, top_k \in 1..MaxChunks :
          /\ op' = "search"
          /\ arg' = [query |-> query, top_k |-> top_k]
          /\ ret' \in search(Encode(query), top_k)
    /\ before' = None
    /\ UNCHANGED <<path, content, chunks, embeddings, index, faiss, disk,
                   saved, built, faults, concVars>>

NextStore ==
    \/ NewStore
    \/ SearchStored
    \/ EmbedBuilt
    \/ EmbedNothing
    \/ EmbedEncodeRaises
    \/ EmbedNoModel
    \/ Save
    \/ Load
    \/ CorruptFile

SpecStore == InitStore /\ [][NextStore]_vars

-----------------------------------------------------------------------------
(* Properties of save and load (SpecStore) *)

\* no file of the directory was damaged from outside
Undamaged(d) == Corrupt \notin {d.embeddings_npy, d.chunks_json, d.index_faiss}

\* C1: for a store that embed_chunks built, save(name) and then load(name)
\* into a fresh store give the saved store's chunk list and embedding rows.
C1_SaveLoadRoundTrip ==
    (/\ op = "load"
     /\ before = FreshFields
     /\ saved # None
     /\ saved.built
     /\ Undamaged(disk)) =>
        /\ ret = Bool(TRUE)
        /\ chunks = saved.chunks
        /\ embeddings = saved.embeddings

\* two chunks, one of them spanning two lines, came back from the disk
C1_Witness ==
    /\ op = "load"
    /\ before = FreshFields
    /\ saved # None
    /\ saved.built
    /\ Undamaged(disk)
    /\ ret = Bool(TRUE)
    /\ Len(chunks) = 2
    /\ chunks[2].end_line > chunks[2].start_line
    /\ Len(embeddings.rows) = 2
    /\ embeddings.rows[1] # embeddings.rows[2]

\* C9 (as claimed): after any sequence of saves the directory holds only what
\* the last save wrote, so a load into a fresh store gives the fields of the
\* store that saved last.
C9_OnlyLastSave ==
    (op = "load" /\ before = FreshFields /\ saved # None /\ Undamaged(disk)) =>
        /\ ret = Bool(TRUE)
        /\ chunks = saved.chunks
        /\ embeddings = saved.embeddings
        /\ faiss => index = saved.index

\* C10 (as claimed): when model.encode raises in embed_chunks, or load meets a
\* corrupt file, the store's chunks, embeddings and index are what they were
\* before the call.
C10_FailureLeavesState ==
    (/\ op \in {"embed_chunks", "load"}
     /\ ret.tag = "raise"
     /\ ret.exc \in {"EncodeError", "CorruptFile"}) => Fields = before

\* C11 (as claimed): whenever search can return results (embeddings are set
\* and there are chunks), there is one embedding row per chunk, row i is the
\* embedding of chunk i, and the index, when present, holds exactly these rows.
C11_ChunksMatchRows ==
    (embeddings # None /\ Len(chunks) > 0) =>
        /\ Len(embeddings.rows) = Len(chunks)
        /\ embeddings.rows = EncodeChunks(chunks)
        /\ index # None => index.rows = embeddings.rows

\* exactly one of embeddings.npy and chunks.json is in the directory
OnlyOneOfTwo(d) ==
    (d.embeddings_npy = Absent) # (d.chunks_json = Absent)

\* C12 (as claimed): load returns False without raising when there is no
\* directory, returns True only when embeddings.npy and chunks.json were both
\* there and loaded, and raises when only one of the two is there.
C12_LoadNeedsBoth ==
    op = "load" =>
        /\ ~disk.exists => ret = Bool(FALSE)
        /\ ret = Bool(TRUE) =>
              disk.embeddings_npy.tag = "npy" /\ disk.chunks_json.tag = "json"
        /\ (disk.exists /\ OnlyOneOfTwo(disk)) => ret.tag = "raise"

\* C13 (as claimed): embed_chunks([]) completes without error when the model
\* can be loaded, and search on a store without chunks raises the ValueError
\* of search's guard and nothing else.
C13_EmptyIndex ==
    /\ (op = "embed_chunks" /\ arg = <<<<>>>> /\ ret.tag = "raise") =>
          ret.exc = "ImportError"
    /\ (op = "search" /\ Len(chunks) = 0) => ret = Raised("ValueError")

-----------------------------------------------------------------------------
(* The concurrent specification: a second process builds and saves stores     *)
(* under the name while this process loads it, file by file                   *)

\* most saves of the second process
MaxSaves == 2

InitConc ==
    /\ path = PyPath
    /\ content = <<>>
    /\ chunks = <<>>
    /\ embeddings = None
    /\ index = None
    /\ faiss \in BOOLEAN
    /\ disk = NoDirectory
    /\ op = "init"
    /\ arg = <<>>
    /\ ret = None
    /\ before = None
    /\ saved = None
    /\ built = FALSE
    /\ faults = 0
    /\ writer = FreshFields
    /\ pcSave = "embed_chunks"
    /\ pcLoad = "idle"
    /\ versions = <<>>
    /\ oldAtLoad = None

thisProcess ==
    <<path, content, chunks, embeddings, index, faiss, op, arg, ret, before,
      built, faults, pcLoad, oldAtLoad>>

\* index_repository, first half: store.embed_chunks(chunks)
WriterEmbed ==
    /\ pcSave = "embed_chunks"
    /\ Len(versions) < MaxSaves
    /\ \E cs \in StoreLists :
          writer' = [chunks |-> cs, embeddings |-> ndarray(EncodeChunks(cs)),
                     index |-> BuildIndex(EncodeChunks(cs))]
    /\ pcSave' = "mkdir"
    /\ UNCHANGED <<thisProcess, disk, saved, versions>>

WriterMkdir ==
    /\ pcSave = "mkdir"
    /\ disk' = MakeDir(disk)
    /\ versions' = Append(versions, writer)
    /\ pcSave' = "embeddings"
    /\ UNCHANGED <<thisProcess, writer, saved>>

WriterSaveEmbeddings ==
    /\ pcSave = "embeddings"
    /\ disk' = SaveEmbeddingsFile(disk, writer.embeddings)
    /\ pcSave' = "chunks"
    /\ UNCHANGED <<thisProcess, writer, saved, versions>>

WriterSaveChunks ==
    /\ pcSave = "chunks"
    /\ disk' = SaveChunksFile(disk, writer.chunks)
    /\ pcSave' = "index"
    /\ UNCHANGED <<thisProcess, writer, saved, versions>>

WriterSaveIndex ==
    /\ pcSave = "index"
    /\ disk' = SaveIndexFile(disk, writer.index)
    /\ saved' = writer
    /\ pcSave' = "embed_chunks"
    /\ UNCHANGED <<thisProcess, writer, versions>>

otherProcess == <<writer, pcSave, versions, disk, saved>>

\* "if not load_path.exists(): return False"
LoadBegin ==
    /\ pcLoad = "idle"
    /\ op' = "load"
    /\ oldAtLoad' = saved
    /\ IF disk.exists
       THEN pcLoad' = "embeddings" /\ ret' = None
       ELSE pcLoad' = "done" /\ ret' = Bool(FALSE)
    /\ UNCHANGED <<otherProcess, path, content, chunks, embeddings, index,
                   faiss, arg, before, built, faults>>

LoadReadEmbeddings ==
    /\ pcLoad = "embeddings"
    /\ embeddings' = LoadEmbeddings(disk, embeddings)
    /\ pcLoad' = "chunks"
    /\ UNCHANGED <<otherProcess, path, content, chunks, index, faiss, op, arg,
                   ret, before, built, faults, oldAtLoad>>

LoadReadChunks ==
    /\ pcLoad = "chunks"
    /\ chunks' = LoadChunks(disk, chunks)
    /\ pcLoad' = "index"
    /\ UNCHANGED <<otherProcess, path, content, embeddings, index, faiss, op,
                   arg, ret, before, built, faults, oldAtLoad>>

LoadReadIndex ==
    /\ pcLoad = "index"
    /\ index' = LoadIndex(disk, index)
    /\ pcLoad' = "done"
    /\ ret' = Bool(TRUE)
    /\ UNCHANGED <<otherProcess, path, content, chunks, embeddings, faiss, op,
                   arg, before, built, faults, oldAtLoad>>

\* this process ends; a new one constructs VectorStore() to load again
LoadAgain ==
    /\ pcLoad = "done"
    /\ chunks' = <<>>
    /\ embeddings' = None
    /\ index' = None
    /\ op' = "init"
    /\ ret' = None
    /\ oldAtLoad' = None
    /\ pcLoad' = "idle"
    /\ UNCHANGED <<otherProcess, path, content, faiss, arg, before, built,
                   faults>>

NextConc ==
    \/ WriterEmbed
    \/ WriterMkdir
    \/ WriterSaveEmbeddings
    \/ WriterSaveChunks
    \/ WriterSaveIndex
    \/ LoadBegin
    \/ LoadReadEmbeddings
    \/ LoadReadChunks
    \/ LoadReadIndex
    \/ LoadAgain

SpecConc == InitConc /\ [][NextConc]_vars

\* C8 (as claimed): a load that runs while save overwrites a complete store
\* reads one save's store whole: its chunks, embeddings and index are those of
\* one of the stores that were saved.
C8_LoadSeesOneSave ==
    (pcLoad = "done" /\ ret = Bool(TRUE) /\ oldAtLoad # None) =>
        \E k \in 1..Len(versions) :
            /\ chunks = versions[k].chunks
            /\ embeddings = versions[k].embeddings
            /\ index = versions[k].index

====
